---- MODULE Spec2Model ----
(***************************************************************************)
(* DC power flow (power_grid_sim.py): build_b_matrix, solve_linear_system  *)
(* and dc_power_flow, with Python's float arithmetic (IEEE-754 binary64,   *)
(* round to nearest, ties to even) modelled bit-exactly.                   *)
(*                                                                         *)
(* A float is a record [neg, m, e] denoting (-1)^neg * m * 2^e.  The       *)
(* magnitude m is a natural number kept as a little-endian sequence of     *)
(* limbs in base 2^15 (TLC's integers are 32 bits wide and a binary64      *)
(* significand has 53).  Floats are kept canonical (m odd, or zero as      *)
(* [neg |-> FALSE, m |-> <<>>, e |-> 0]) so that equal numbers are equal   *)
(* values.  The sign of zero, infinities, NaNs and subnormals are not      *)
(* modelled: the inputs are bounded away from them.                        *)
(***************************************************************************)
EXTENDS Integers, Sequences, FiniteSets, TLC

\* ------------------------------------------------------------------------
\* Natural numbers wider than 32 bits
\* ------------------------------------------------------------------------
LimbBits == 14 + 1
LimbBase == 2^LimbBits

\* Significand width of a Python float (binary64).
Precision == 53

Min(a, b) == IF a <= b THEN a ELSE b
Max(a, b) == IF a >= b THEN a ELSE b

RECURSIVE BNorm(_)
BNorm(a) ==
    IF a = <<>> THEN <<>>
    ELSE IF a[Len(a)] = 0 THEN BNorm(SubSeq(a, 1, Len(a) - 1))
    ELSE a

Limb(a, k) == IF k >= 1 /\ k <= Len(a) THEN a[k] ELSE 0

RECURSIVE BAddFrom(_, _, _, _)
BAddFrom(a, b, k, carry) ==
    IF k > Len(a) /\ k > Len(b)
    THEN IF carry = 0 THEN <<>> ELSE <<carry>>
    ELSE LET t == Limb(a, k) + Limb(b, k) + carry
         IN  <<t % LimbBase>> \o BAddFrom(a, b, k + 1, t \div LimbBase)

BAdd(a, b) == BAddFrom(a, b, 1, 0)

\* a - b for a >= b
RECURSIVE BSubFrom(_, _, _, _)
BSubFrom(a, b, k, borrow) ==
    IF k > Len(a) THEN <<>>
    ELSE LET t == Limb(a, k) - Limb(b, k) - borrow
         IN  IF t < 0
             THEN <<t + LimbBase>> \o BSubFrom(a, b, k + 1, 1)
             ELSE <<t>> \o BSubFrom(a, b, k + 1, 0)

BSub(a, b) == BNorm(BSubFrom(a, b, 1, 0))

\* -1, 0, 1 as a < b, a = b, a > b (both normalised)
RECURSIVE BCmpFrom(_, _, _)
BCmpFrom(a, b, k) ==
    IF k = 0 THEN 0
    ELSE IF a[k] < b[k] THEN -1
    ELSE IF a[k] > b[k] THEN 1
    ELSE BCmpFrom(a, b, k - 1)

BCmp(a, b) ==
    IF Len(a) < Len(b) THEN -1
    ELSE IF Len(a) > Len(b) THEN 1
    ELSE BCmpFrom(a, b, Len(a))

\* a * d for one limb d
RECURSIVE BMulLimbFrom(_, _, _, _)
BMulLimbFrom(a, d, k, carry) ==
    IF k > Len(a)
    THEN IF carry = 0 THEN <<>> ELSE <<carry>>
    ELSE LET t == a[k] * d + carry
         IN  <<t % LimbBase>> \o BMulLimbFrom(a, d, k + 1, t \div LimbBase)

BMulLimb(a, d) == IF d = 0 THEN <<>> ELSE BMulLimbFrom(a, d, 1, 0)

\* a * LimbBase^n
BShiftLimbs(a, n) ==
    IF a = <<>> \/ n = 0 THEN a ELSE [k \in 1..n |-> 0] \o a

RECURSIVE BMulFrom(_, _, _)
BMulFrom(a, b, k) ==
    IF k > Len(b) THEN <<>>
    ELSE BAdd(BShiftLimbs(BMulLimb(a, b[k]), k - 1), BMulFrom(a, b, k + 1))

BMul(a, b) == BMulFrom(a, b, 1)

\* number of bits of one limb, of a number
RECURSIVE LimbLen(_)
LimbLen(d) == IF d = 0 THEN 0 ELSE 1 + LimbLen(d \div 2)

BitLen(a) ==
    IF a = <<>> THEN 0 ELSE LimbBits * (Len(a) - 1) + LimbLen(a[Len(a)])

\* a * 2^n
BShl(a, n) ==
    BShiftLimbs(BMulLimb(a, 2^(n % LimbBits)), n \div LimbBits)

\* a \div 2^n
RECURSIVE BShrBitsFrom(_, _, _)
BShrBitsFrom(a, r, k) ==
    IF k > Len(a) THEN <<>>
    ELSE <<(a[k] \div 2^r) + (Limb(a, k + 1) % 2^r) * 2^(LimbBits - r)>>
         \o BShrBitsFrom(a, r, k + 1)

BShr(a, n) ==
    LET q == n \div LimbBits
        hi == IF q >= Len(a) THEN <<>> ELSE SubSeq(a, q + 1, Len(a))
    IN  BNorm(BShrBitsFrom(hi, n % LimbBits, 1))

\* bit n (0 = lowest) of a
Bit(a, n) == (Limb(a, (n \div LimbBits) + 1) \div 2^(n % LimbBits)) % 2

\* number of trailing zero bits of a /= 0
RECURSIVE LimbZeros(_)
LimbZeros(d) == IF d % 2 = 1 THEN 0 ELSE 1 + LimbZeros(d \div 2)

RECURSIVE TrailingZerosFrom(_, _)
TrailingZerosFrom(a, k) ==
    IF a[k] = 0 THEN LimbBits + TrailingZerosFrom(a, k + 1)
    ELSE LimbZeros(a[k])

TrailingZeros(a) == TrailingZerosFrom(a, 1)

\* the natural number n < 2^31 as limbs
RECURSIVE BNat(_)
BNat(n) == IF n = 0 THEN <<>> ELSE <<n % LimbBase>> \o BNat(n \div LimbBase)

\* ------------------------------------------------------------------------
\* Python floats
\* ------------------------------------------------------------------------
Zero == [neg |-> FALSE, m |-> <<>>, e |-> 0]

\* the canonical record of (-1)^neg * m * 2^e
Canon(neg, m, e) ==
    IF m = <<>> THEN Zero
    ELSE LET tz == TrailingZeros(m)
         IN  [neg |-> neg, m |-> BShr(m, tz), e |-> e + tz]

\* the integer n, |n| < 2^31, times 2^e
Dyadic(n, e) == Canon(n < 0, BNat(IF n < 0 THEN -n ELSE n), e)

\* Exact (unrounded) arithmetic on canonical records.
DNeg(x) == IF x.m = <<>> THEN x ELSE [x EXCEPT !.neg = ~x.neg]

DAbs(x) == [x EXCEPT !.neg = FALSE]

DAdd(x, y) ==
    IF x.m = <<>> THEN y
    ELSE IF y.m = <<>> THEN x
    ELSE LET e  == Min(x.e, y.e)
             mx == BShl(x.m, x.e - e)
             my == BShl(y.m, y.e - e)
             c  == BCmp(mx, my)
         IN  IF x.neg = y.neg THEN Canon(x.neg, BAdd(mx, my), e)
             ELSE IF c = 0 THEN Zero
             ELSE IF c > 0 THEN Canon(x.neg, BSub(mx, my), e)
             ELSE Canon(y.neg, BSub(my, mx), e)

DSub(x, y) == DAdd(x, DNeg(y))

DMul(x, y) ==
    IF x.m = <<>> \/ y.m = <<>> THEN Zero
    ELSE Canon(x.neg # y.neg, BMul(x.m, y.m), x.e + y.e)

\* -1, 0, 1 as x < y, x = y, x > y
DCmp(x, y) ==
    LET d == DSub(x, y)
    IN  IF d.m = <<>> THEN 0 ELSE IF d.neg THEN -1 ELSE 1

DLt(x, y) == DCmp(x, y) < 0
DLe(x, y) == DCmp(x, y) <= 0

\* Round to nearest binary64, ties to even.  The magnitude is odd, so the
\* discarded bits are exactly one half only when a single bit is discarded.
Round(x) ==
    LET len == BitLen(x.m)
        sh  == len - Precision
        q   == BShr(x.m, sh)
        up  == IF sh = 1 THEN Bit(q, 0) ELSE Bit(x.m, sh - 1)
    IN  IF len <= Precision THEN x
        ELSE Canon(x.neg, IF up = 1 THEN BAdd(q, <<1>>) ELSE q, x.e + sh)

\* float + float, float - float, float * float
FAdd(x, y) == Round(DAdd(x, y))
FSub(x, y) == Round(DSub(x, y))
FMul(x, y) == Round(DMul(x, y))

\* Long division in base 2^15: a and b are scaled to 60 bits (four limbs,
\* top bit set), a leading quotient digit and four more limbs are produced.
QuoLimbs == 4

RECURSIVE QuoDigit(_, _, _)
QuoDigit(r, b, qhat) ==
    IF BCmp(BMulLimb(b, qhat), r) > 0 THEN QuoDigit(r, b, qhat - 1) ELSE qhat

RECURSIVE LongDiv(_, _, _, _)
LongDiv(r, b, q, n) ==
    IF n = 0 THEN [q |-> q, r |-> r]
    ELSE LET r1   == BShiftLimbs(r, 1)
             top  == Limb(r1, QuoLimbs + 1) * LimbBase + Limb(r1, QuoLimbs)
             qhat == QuoDigit(r1, b, Min(LimbBase - 1, top \div b[QuoLimbs]))
         IN  LongDiv(BSub(r1, BMulLimb(b, qhat)), b, <<qhat>> \o q, n - 1)

\* float / float for y /= 0: the quotient to 60 bits and a sticky bit, rounded
FDiv(x, y) ==
    IF x.m = <<>> THEN Zero
    ELSE LET w  == QuoLimbs * LimbBits
             lx == BitLen(x.m)
             ly == BitLen(y.m)
             a  == BShl(x.m, w - lx)
             b  == BShl(y.m, w - ly)
             q0 == IF BCmp(a, b) >= 0 THEN 1 ELSE 0
             d  == LongDiv(IF q0 = 1 THEN BSub(a, b) ELSE a, b,
                           IF q0 = 1 THEN <<1>> ELSE <<>>, QuoLimbs)
             q  == BNorm(d.q)
             e  == x.e - y.e + lx - ly - w
         IN  IF d.r = <<>>
             THEN Round(Canon(x.neg # y.neg, q, e))
             ELSE Round(Canon(x.neg # y.neg, BAdd(BShl(q, 1), <<1>>), e - 1))

\* abs(x); x < y on floats
FAbs(x) == DAbs(x)
FLt(x, y) == DLt(x, y)

\* A decimal float literal n * 10^(-k), converted as Python's parser does
\* (the nearest binary64): 1e-12 is Dec(1, 12), 0.15 is Dec(15, 2).
Dec(n, k) ==
    IF k >= 0
    THEN FDiv(Dyadic(n, 0), Dyadic(5^k, k))
    ELSE Round(DMul(Dyadic(n, 0), Dyadic(5^(-k), -k)))

\* 1.0
One == [neg |-> FALSE, m |-> <<1>>, e |-> 0]

\* 1e-12, the threshold of the singularity check: 0x1.19799812dea11p-40
Eps == [neg |-> FALSE, m |-> <<27153, 603, 24166, 140>>, e |-> -92]

\* 1e-9, the tolerance of the comparisons "within tolerance":
\* 0x1.12e0be826d695p-30
Tol == [neg |-> FALSE, m |-> <<22165, 20557, 14383, 137>>, e |-> -82]

\* the records above are the literals they stand for
LiteralsExact == One = Dyadic(1, 0) /\ Eps = Dec(1, 12) /\ Tol = Dec(1, 9)

\* ------------------------------------------------------------------------
\* Python lists
\* ------------------------------------------------------------------------
\* The 1-based position of list[i] in a list of length len: Python counts
\* from 0 and a negative i from the end; 0 stands for IndexError.
PyIndex(i, len) ==
    IF i >= 0 /\ i < len THEN i + 1
    ELSE IF i < 0 /\ i >= -len THEN i + len + 1
    ELSE 0

\* ------------------------------------------------------------------------
\* build_b_matrix
\* ------------------------------------------------------------------------
ZeroMatrix(N) == [r \in 1..N |-> [c \in 1..N |-> Zero]]

\* B[r][c] += d
AddAt(Bv, r, c, d) == [Bv EXCEPT ![r][c] = FAdd(@, d)]

\* B[r][c] -= d, as if written B[r][c] += d
SubAtAdding(Bv, r, c, d) == [Bv EXCEPT ![r][c] = FAdd(@, d)]

\* B[r][c] -= d
SubAt(Bv, r, c, d) == [Bv EXCEPT ![r][c] = FSub(@, d)]

\* The loop body, as if its last statement, B[j][i] -= b, were missing
AccumulateLineOneSided(Bv, line) ==
    LET N  == Len(Bv)
        i  == PyIndex(line[1], N)
        j  == PyIndex(line[2], N)
        bb == FDiv(One, line[3])
    IN  IF line[3].m = <<>> THEN [B |-> Bv, err |-> "ZeroDivisionError"]
        ELSE IF i = 0 \/ j = 0 THEN [B |-> Bv, err |-> "IndexError"]
        ELSE [B |-> SubAt(AddAt(AddAt(Bv, i, i, bb), j, j, bb), i, j, bb),
              err |-> "none"]

\* One pass of the loop body for the line (i, j, x): the matrix after it, and
\* the exception that ended it, if any.  An IndexError leaves the updates
\* made before it in place.
AccumulateLine(Bv, line) ==
    LET N  == Len(Bv)
        i  == PyIndex(line[1], N)
        j  == PyIndex(line[2], N)
        bb == FDiv(One, line[3])
        B1 == AddAt(Bv, i, i, bb)
        B2 == AddAt(B1, j, j, bb)
        B3 == SubAt(B2, i, j, bb)
        B4 == SubAt(B3, j, i, bb)
    IN  IF line[3].m = <<>> THEN [B |-> Bv, err |-> "ZeroDivisionError"]
        ELSE IF i = 0 THEN [B |-> Bv, err |-> "IndexError"]
        ELSE IF j = 0 THEN [B |-> B1, err |-> "IndexError"]
        ELSE [B |-> B4, err |-> "none"]

RECURSIVE BuildFrom(_, _, _)
BuildFrom(Bv, lns, k) ==
    IF k > Len(lns) THEN [B |-> Bv, err |-> "none"]
    ELSE LET s == AccumulateLine(Bv, lns[k])
         IN  IF s.err # "none" THEN s ELSE BuildFrom(s.B, lns, k + 1)

build_b_matrix(N, lns) == BuildFrom(ZeroMatrix(N), lns, 1)

\* ------------------------------------------------------------------------
\* solve_linear_system
\* ------------------------------------------------------------------------
\* M = [row[:] + [b_val] for row, b_val in zip(A, b)]
Augmented(Av, bv) == [r \in 1..Min(Len(Av), Len(bv)) |-> Append(Av[r], bv[r])]

\* the pivot row, as if the diagonal entry were taken without a search
PivotRowDiagonal(Mv, i) == i

\* max(range(i, n), key=lambda r: abs(M[r][i])): the first row of largest
\* magnitude in column i
PivotRow(Mv, i) ==
    CHOOSE p \in i..Len(Mv) :
        \A r \in i..Len(Mv) :
            /\ r < p => FLt(FAbs(Mv[r][i]), FAbs(Mv[p][i]))
            /\ r > p => ~FLt(FAbs(Mv[p][i]), FAbs(Mv[r][i]))

\* M[i], M[pivot_row] = M[pivot_row], M[i], on any list
SwapRows(Mv, i, p) == [Mv EXCEPT ![i] = Mv[p], ![p] = Mv[i]]

\* abs(pivot) < 1e-12
IsSingularPivot(pivot) == FLt(FAbs(pivot), Eps)

\* for j in range(i, n + 1): M[i][j] /= pivot
NormalizeRow(row, i, pivot) ==
    [j \in 1..Len(row) |-> IF j >= i THEN FDiv(row[j], pivot) ELSE row[j]]

\* the elimination, as if written M[r][j] += factor * M[i][j]
EliminateRowAdding(row, prow, i) ==
    LET factor == row[i]
    IN  [j \in 1..Len(row) |->
            IF j >= i THEN FAdd(row[j], FMul(factor, prow[j])) ELSE row[j]]

\* for j in range(i, n + 1): M[r][j] -= factor * M[i][j]
EliminateRow(row, prow, i) ==
    LET factor == row[i]
    IN  [j \in 1..Len(row) |->
            IF j >= i THEN FSub(row[j], FMul(factor, prow[j])) ELSE row[j]]

\* One pass of the loop over the pivot columns: the row order after the swap,
\* the rows after normalisation and elimination, or the singular-matrix error.
EliminateColumn(Mv, i) ==
    LET p     == PivotRow(Mv, i)
        S     == SwapRows(Mv, i, p)
        pivot == S[i][i]
        prow  == NormalizeRow(S[i], i, pivot)
    IN  IF IsSingularPivot(pivot)
        THEN [M |-> S, p |-> p, err |-> "Singular matrix"]
        ELSE [M |-> [r \in 1..Len(S) |->
                        IF r = i THEN prow ELSE EliminateRow(S[r], prow, i)],
              p |-> p, err |-> "none"]

\* return [M[i][-1] for i in range(n)]
LastColumn(Mv) == [r \in 1..Len(Mv) |-> Mv[r][Len(Mv[r])]]

RECURSIVE SolveFrom(_, _)
SolveFrom(Mv, i) ==
    IF i > Len(Mv) THEN [x |-> LastColumn(Mv), err |-> "none"]
    ELSE LET s == EliminateColumn(Mv, i)
         IN  IF s.err # "none" THEN [x |-> <<>>, err |-> s.err]
             ELSE SolveFrom(s.M, i + 1)

solve_linear_system(Av, bv) == SolveFrom(Augmented(Av, bv), 1)

\* ------------------------------------------------------------------------
\* dc_power_flow
\* ------------------------------------------------------------------------
\* angles = [0.0] + angles_unknown, as if the slack angle were appended
WithSlackLast(xs) == xs \o <<Zero>>

\* angles = [0.0] + angles_unknown
WithSlack(xs) == <<Zero>> \o xs

\* B_reduced = [row[1:] for row in B[1:]]
Reduced(Bv) == [r \in 1..(Len(Bv) - 1) |-> Tail(Bv[r + 1])]

\* flow, as if written abs(angles[i] - angles[j]) / x
LineFlowAbs(ang, line) ==
    FDiv(FAbs(FSub(ang[PyIndex(line[1], Len(ang))], ang[PyIndex(line[2], Len(ang))])),
         line[3])

\* flow = (angles[i] - angles[j]) / x
LineFlow(ang, line) ==
    FDiv(FSub(ang[PyIndex(line[1], Len(ang))], ang[PyIndex(line[2], Len(ang))]),
         line[3])

Flows(ang, lns) == [k \in 1..Len(lns) |-> <<lns[k][1], lns[k][2], LineFlow(ang, lns[k])>>]

\* injections[1:]
Rest(list) == IF list = <<>> THEN <<>> ELSE Tail(list)

Raised(err) == [angles |-> <<>>, flows |-> <<>>, err |-> err]

dc_power_flow(N, lns, inj) ==
    IF Len(inj) # N
    THEN Raised("Mismatch between number of buses and injections")
    ELSE LET bm == build_b_matrix(N, lns)
             sv == solve_linear_system(Reduced(bm.B), Rest(inj))
             an == WithSlack(sv.x)
         IN  IF bm.err # "none" THEN Raised(bm.err)
             ELSE IF sv.err # "none" THEN Raised(sv.err)
             ELSE [angles |-> an, flows |-> Flows(an, lns), err |-> "none"]

\* ------------------------------------------------------------------------
\* The program as a state machine
\* ------------------------------------------------------------------------
\* A matrix is a Python list of row lists.  rows is the store of row lists
\* (a row list is identified by its position in it); B, A and M hold the
\* identities of their rows, so that two matrices can share a row list and a
\* write through one is seen through the other.
VARIABLES
    call,        \* the function the caller invoked
    pc,          \* the statement about to run, or "returned" / "raised"
    num_nodes,   \* dc_power_flow's and build_b_matrix's arguments
    lines,
    injections,
    rows,        \* the row lists allocated so far
    B,           \* build_b_matrix's B
    A,           \* solve_linear_system's arguments
    b,
    M,           \* the augmented matrix
    i,           \* the pivot column (1-based)
    k,           \* the next line of a loop over lines (1-based)
    x,           \* solve_linear_system's result
    angles,      \* dc_power_flow's results
    flows,
    err,         \* the exception raised, or "none"
    entered,     \* the functions entered so far
    given,       \* the arguments as the caller passed them
    chosen       \* the x the caller computed b = A x from, if it did

vars == <<call, pc, num_nodes, lines, injections, rows, B, A, b, M, i, k, x,
          angles, flows, err, entered, given, chosen>>

\* the matrix whose rows are refs
Deref(refs) == [r \in 1..Len(refs) |-> rows[refs[r]]]

\* rows with the row lists refs holding vals (allocating those past the end)
RECURSIVE MaxRef(_)
MaxRef(refs) == IF refs = <<>> THEN 0 ELSE Max(Head(refs), MaxRef(Tail(refs)))

Store(heap, refs, vals) ==
    [id \in 1..Max(Len(heap), MaxRef(refs)) |->
        IF \E r \in 1..Len(refs) : refs[r] = id
        THEN vals[CHOOSE r \in 1..Len(refs) : refs[r] = id]
        ELSE heap[id]]

\* n new row lists
Fresh(heap, n) == [r \in 1..n |-> Len(heap) + r]

\* The rows of M, as if each row of A were extended in place (row.append)
AugmentedRefsInPlace(heap, Arefs, n) == SubSeq(Arefs, 1, n)

\* The rows of M = [row[:] + [b_val] ...]: row[:] + [b_val] is a new list
AugmentedRefs(heap, Arefs, n) == Fresh(heap, n)

\* len(injections) != num_nodes, as if written len(injections) < num_nodes
DimensionMismatchShort(inj, N) == Len(inj) < N

\* len(injections) != num_nodes
DimensionMismatch(inj, N) == Len(inj) # N

\* line 80-81
Check ==
    /\ pc = "dc_power_flow"
    /\ entered' = entered \cup {"dc_power_flow"}
    /\ IF DimensionMismatch(injections, num_nodes)
       THEN /\ pc' = "raised"
            /\ err' = "Mismatch between number of buses and injections"
       ELSE /\ pc' = "build_b_matrix"
            /\ err' = err
    /\ UNCHANGED <<call, num_nodes, lines, injections, rows, B, A, b, M, i, k,
                   x, angles, flows, given, chosen>>

\* line 22
BuildInit ==
    /\ pc = "build_b_matrix"
    /\ entered' = entered \cup {"build_b_matrix"}
    /\ B' = Fresh(rows, num_nodes)
    /\ rows' = Store(rows, B', ZeroMatrix(num_nodes))
    /\ k' = 1
    /\ pc' = "build_loop"
    /\ UNCHANGED <<call, num_nodes, lines, injections, A, b, M, i, x, angles,
                   flows, err, given, chosen>>

\* line 23-28, one line (s is the outcome of the loop body)
BuildLine ==
    /\ pc = "build_loop"
    /\ k <= Len(lines)
    /\ \E s \in {AccumulateLine(Deref(B), lines[k])} :
           /\ rows' = Store(rows, B, s.B)
           /\ err' = s.err
           /\ pc' = IF s.err = "none" THEN "build_loop" ELSE "raised"
           /\ k' = IF s.err = "none" THEN k + 1 ELSE k
    /\ UNCHANGED <<call, num_nodes, lines, injections, B, A, b, M, i, x,
                   angles, flows, entered, given, chosen>>

\* line 29, and line 83 in dc_power_flow
BuildReturn ==
    /\ pc = "build_loop"
    /\ k > Len(lines)
    /\ pc' = IF call = "build_b_matrix" THEN "returned" ELSE "reduce"
    /\ UNCHANGED <<call, num_nodes, lines, injections, rows, B, A, b, M, i, k,
                   x, angles, flows, err, entered, given, chosen>>

\* line 86-89: the reduced system, passed to solve_linear_system
Reduce ==
    /\ pc = "reduce"
    /\ A' = Fresh(rows, num_nodes - 1)
    /\ rows' = Store(rows, A', Reduced(Deref(B)))
    /\ b' = Rest(injections)
    /\ given' = [given EXCEPT !.A = Reduced(Deref(B)), !.b = Rest(injections)]
    /\ pc' = "solve_linear_system"
    /\ UNCHANGED <<call, num_nodes, lines, injections, B, M, i, k, x, angles,
                   flows, err, entered, chosen>>

\* line 37-39
SolveInit ==
    /\ pc = "solve_linear_system"
    /\ entered' = entered \cup {"solve_linear_system"}
    /\ M' = AugmentedRefs(rows, A, Min(Len(A), Len(b)))
    /\ rows' = Store(rows, M', Augmented(Deref(A), b))
    /\ i' = 1
    /\ pc' = "solve_loop"
    /\ UNCHANGED <<call, num_nodes, lines, injections, B, A, b, k, x, angles,
                   flows, err, given, chosen>>

\* line 41-59, one pivot column (s is the outcome of the loop body)
SolveColumn ==
    /\ pc = "solve_loop"
    /\ i <= Len(A)
    /\ \E s \in {EliminateColumn(Deref(M), i)} :
           /\ M' = SwapRows(M, i, s.p)
           /\ rows' = Store(rows, M', s.M)
           /\ err' = s.err
           /\ pc' = IF s.err = "none" THEN "solve_loop" ELSE "raised"
           /\ i' = IF s.err = "none" THEN i + 1 ELSE i
    /\ UNCHANGED <<call, num_nodes, lines, injections, B, A, b, k, x, angles,
                   flows, entered, given, chosen>>

\* line 61, and line 89-90 in dc_power_flow
SolveReturn ==
    /\ pc = "solve_loop"
    /\ i > Len(A)
    /\ x' = LastColumn(Deref(M))
    /\ IF call = "solve_linear_system"
       THEN /\ pc' = "returned"
            /\ UNCHANGED <<angles, k>>
       ELSE /\ pc' = "flow_loop"
            /\ angles' = WithSlack(x')
            /\ k' = 1
    /\ UNCHANGED <<call, num_nodes, lines, injections, rows, B, A, b, M, i,
                   flows, err, entered, given, chosen>>

\* line 93-95, one line
FlowLine ==
    /\ pc = "flow_loop"
    /\ k <= Len(lines)
    /\ flows' = Append(flows, <<lines[k][1], lines[k][2], LineFlow(angles, lines[k])>>)
    /\ k' = k + 1
    /\ UNCHANGED <<call, pc, num_nodes, lines, injections, rows, B, A, b, M, i,
                   x, angles, err, entered, given, chosen>>

\* line 97
Return ==
    /\ pc = "flow_loop"
    /\ k > Len(lines)
    /\ pc' = "returned"
    /\ UNCHANGED <<call, num_nodes, lines, injections, rows, B, A, b, M, i, k,
                   x, angles, flows, err, entered, given, chosen>>

\* ------------------------------------------------------------------------
\* Calls of dc_power_flow
\* ------------------------------------------------------------------------
MaxNodes == 3
MaxLines == 2

Buses(N) == 0..(N - 1)

\* lines between two buses of the network with reactances from X, in both
\* orientations, and lines from a bus to itself
Branches(N, X) ==
    {<<e[1], e[2], r>> : e \in {d \in Buses(N) \X Buses(N) : d[1] # d[2]}, r \in X}
SelfLoops(N, X) == {<<p, p, r>> : p \in Buses(N), r \in X}

\* lines the code does not reject up front: a self-loop, a bus index past the
\* end, one counted from the end, a zero reactance, a negative reactance
OddLines(N) ==
    {<<0, 0, Dec(1, 1)>>, <<0, N, Dec(1, 1)>>, <<-1, 0, Dec(1, 1)>>, <<0, N - 1, Zero>>,
     <<N - 2, N - 1, Dec(-1, 1)>>}

Lists(S, n) == UNION {[1..m -> S] : m \in 0..n}

\* injection vectors: (n-1, -1, ..., -1), which sums to zero, and (1, ..., 1)
Balanced(n) == [c \in 1..n |-> IF c = 1 THEN Dyadic(n - 1, 0) ELSE Dyadic(-1, 0)]
Unbalanced(n) == [c \in 1..n |-> One]

\* the sample network of main(), line 102-108
SampleLines == <<<<0, 1, Dec(1, 1)>>, <<0, 2, Dec(2, 1)>>, <<1, 2, Dec(15, 2)>>>>
SampleInjections == <<Dyadic(100, 0), Dyadic(-40, 0), Dyadic(-60, 0)>>

\* the state at a call, before its first statement
AtCall(f, N, lns, inj, Av, bv) ==
    /\ call = f
    /\ pc = f
    /\ num_nodes = N
    /\ lines = lns
    /\ injections = inj
    /\ rows = Av
    /\ A = [r \in 1..Len(Av) |-> r]
    /\ b = bv
    /\ B = <<>>
    /\ M = <<>>
    /\ i = 0
    /\ k = 0
    /\ x = <<>>
    /\ angles = <<>>
    /\ flows = <<>>
    /\ err = "none"
    /\ entered = {}
    /\ given = [num_nodes |-> N, lines |-> lns, injections |-> inj,
                A |-> Av, b |-> bv]

\* Small networks with reactances 0.1 and 1e13, lines the code does not
\* reject up front, and injection vectors of length N - 1, N and N + 1.
InitSmall ==
    \E N \in 1..MaxNodes :
    \E lns \in Lists(Branches(N, {Dec(1, 1), Dec(1, -13)}) \cup OddLines(N), MaxLines) :
    \E inj \in {Balanced(N), Unbalanced(N - 1), Unbalanced(N + 1)} :
        /\ AtCall("dc_power_flow", N, lns, inj, <<>>, <<>>)
        /\ chosen = <<>>

\* The sample network of main() and its variants: the three lines with any
\* of the three reactances, the three injections in any order.
InitSample ==
    \E r \in [1..3 -> {Dec(1, 1), Dec(2, 1), Dec(15, 2)}] :
    \E o \in {f \in [1..3 -> 1..3] : \A c, d \in 1..3 : c # d => f[c] # f[d]} :
        /\ AtCall("dc_power_flow", 3,
                  [c \in 1..3 |-> <<SampleLines[c][1], SampleLines[c][2], r[c]>>],
                  [c \in 1..3 |-> SampleInjections[o[c]]], <<>>, <<>>)
        /\ chosen = <<>>

Init == LiteralsExact /\ (InitSmall \/ InitSample)

Next ==
    \/ Check
    \/ BuildInit
    \/ BuildLine
    \/ BuildReturn
    \/ Reduce
    \/ SolveInit
    \/ SolveColumn
    \/ SolveReturn
    \/ FlowLine
    \/ Return

Spec == Init /\ [][Next]_vars

\* ------------------------------------------------------------------------
\* Properties of dc_power_flow
\* ------------------------------------------------------------------------
\* the bus (0-based) a line end denotes, -1 if none
BusOf(e, N) == PyIndex(e, N) - 1

\* in-range endpoints and nonzero reactances
ValidNetwork(N, lns) ==
    \A c \in 1..Len(lns) :
        /\ lns[c][1] \in Buses(N)
        /\ lns[c][2] \in Buses(N)
        /\ lns[c][3].m # <<>>

PositiveReactances(lns) == \A c \in 1..Len(lns) : lns[c][3].m # <<>> /\ ~lns[c][3].neg

\* the buses with a path of lines to a bus of S
RECURSIVE Reach(_, _, _)
Reach(S, N, lns) ==
    LET T == S \cup {q \in Buses(N) : \E c \in 1..Len(lns) :
                        \/ BusOf(lns[c][1], N) \in S /\ BusOf(lns[c][2], N) = q
                        \/ BusOf(lns[c][2], N) \in S /\ BusOf(lns[c][1], N) = q}
    IN  IF T = S THEN S ELSE Reach(T, N, lns)

Connected(N, lns) == Reach({0}, N, lns) = Buses(N)

MismatchError == "Mismatch between number of buses and injections"

\* C2: when len(injections) != num_nodes, dc_power_flow raises the
\* dimension-mismatch error as its first step: neither build_b_matrix nor
\* solve_linear_system is entered and no matrix is allocated, whatever the
\* line list holds.
DimensionCheckFirst ==
    Len(injections) # num_nodes =>
        /\ pc \in {"dc_power_flow", "raised"}
        /\ entered \subseteq {"dc_power_flow"}
        /\ rows = <<>> /\ B = <<>> /\ M = <<>>
        /\ pc = "raised" => err = MismatchError

\* a mismatched call has raised although its lines hold a zero reactance and
\* an out-of-range bus index, and leave bus 1 without a path to bus 0
DimensionCheckWitness ==
    /\ pc = "raised"
    /\ err = MismatchError
    /\ num_nodes >= 2
    /\ \E c \in 1..Len(lines) : lines[c][3] = Zero
    /\ \E c \in 1..Len(lines) : PyIndex(lines[c][2], num_nodes) = 0
    /\ ~Connected(num_nodes, lines)

\* a rounds to n / 10^4 at four decimal places: |a * 10^4 - n| <= 1/2
RoundsTo4(a, n) ==
    DLe(DAbs(DSub(DMul(a, Dyadic(10000, 0)), Dyadic(n, 0))), Dyadic(1, -1))

\* theta is, within 5e-5 per component, the solution of the 2 x 2 system
\* Q theta = P by Cramer's rule, in exact arithmetic:
\* |theta[c] * det - num[c]| <= 5e-5 * |det|
Det2(Q) == DSub(DMul(Q[1][1], Q[2][2]), DMul(Q[1][2], Q[2][1]))

SolvesDirectly(Q, P, theta) ==
    LET det  == Det2(Q)
        num1 == DSub(DMul(P[1], Q[2][2]), DMul(Q[1][2], P[2]))
        num2 == DSub(DMul(Q[1][1], P[2]), DMul(Q[2][1], P[1]))
        tol  == DMul(Dec(5, 5), DAbs(det))
    IN  /\ det # Zero
        /\ DLe(DAbs(DSub(DMul(theta[1], det), num1)), tol)
        /\ DLe(DAbs(DSub(DMul(theta[2], det), num2)), tol)

IsSample ==
    num_nodes = 3 /\ lines = SampleLines /\ injections = SampleInjections

\* C4 (as amended): on the sample network of main(), dc_power_flow returns
\* angles[0] == 0.0 and, to four decimal places, angles[1] = -5.7778 and
\* angles[2] = -8.4444, the solution of the reduced 2 x 2 system
\* B_reduced theta = (-40, -60) by direct inversion.
SampleAngles ==
    pc = "returned" /\ IsSample =>
        /\ angles[1] = Zero
        /\ RoundsTo4(angles[2], -57778)
        /\ RoundsTo4(angles[3], -84444)
        /\ SolvesDirectly(given.A, given.b, <<angles[2], angles[3]>>)

SampleAnglesWitness == pc = "returned" /\ IsSample /\ Len(flows) = 3

\* C4 (as claimed): ... angles[1] = -0.0495 and angles[2] = -0.0827 to four
\* decimal places.
SampleAnglesAsClaimed ==
    pc = "returned" /\ IsSample =>
        /\ angles[1] = Zero
        /\ RoundsTo4(angles[2], -495)
        /\ RoundsTo4(angles[3], -827)

\* a valid network with positive reactances and a path from every bus to bus 0
ValidConnected ==
    /\ num_nodes >= 1
    /\ Len(injections) = num_nodes
    /\ ValidNetwork(num_nodes, lines)
    /\ PositiveReactances(lines)
    /\ Connected(num_nodes, lines)

\* C8 (as amended): on a valid connected network with positive reactances
\* dc_power_flow either raises the singular-matrix error on a pivot of
\* magnitude below 1e-12 or returns an angle vector of length num_nodes whose
\* element 0 is exactly 0.0.
SlackAngle ==
    /\ pc = "raised" /\ ValidConnected =>
          /\ err = "Singular matrix"
          /\ IsSingularPivot(Deref(M)[i][i])
    /\ pc \in {"flow_loop", "returned"} /\ ValidConnected =>
          /\ Len(angles) = num_nodes
          /\ angles[1] = Zero

SlackAngleWitness ==
    /\ pc = "returned"
    /\ num_nodes = 3
    /\ ValidConnected
    /\ angles[2] # Zero

\* C8 (as claimed): on a valid connected network with positive reactances
\* dc_power_flow returns, with an angle vector of length num_nodes whose
\* element 0 is 0.0.
SlackAngleAsClaimed ==
    /\ pc = "raised" => ~ValidConnected
    /\ pc \in {"flow_loop", "returned"} /\ ValidConnected =>
          /\ Len(angles) = num_nodes
          /\ angles[1] = Zero

\* lns with the ends of line c exchanged
Reversed(lns, c) == [lns EXCEPT ![c] = <<lns[c][2], lns[c][1], lns[c][3]>>]

\* C9: exchanging the ends of a line negates its flow for the same angles,
\* and dc_power_flow on the list with line c reversed returns the same angles
\* and the same flows but for line c's, which is negated.
FlowAntisymmetry ==
    pc = "returned" =>
        \A c \in 1..Len(lines) :
            /\ LineFlow(angles, Reversed(lines, c)[c]) = DNeg(LineFlow(angles, lines[c]))
            /\ dc_power_flow(num_nodes, Reversed(lines, c), injections)
                 = [angles |-> angles,
                    flows |-> [flows EXCEPT ![c] = <<lines[c][2], lines[c][1], DNeg(flows[c][3])>>],
                    err |-> "none"]

FlowAntisymmetryWitness ==
    /\ pc = "returned"
    /\ \E c \in 1..Len(lines) : lines[c][1] # lines[c][2] /\ flows[c][3] # Zero

\* C10: the caller's lines and injections are never modified, and from the
\* call of solve_linear_system on, through its return or its raise, the rows
\* of A and the list b hold the values they were passed with.
InputsUnchanged ==
    /\ num_nodes = given.num_nodes
    /\ lines = given.lines
    /\ injections = given.injections
    /\ "solve_linear_system" \in entered => Deref(A) = given.A /\ b = given.b

\* rows of the working copy have been swapped, normalised and eliminated
InputsUnchangedWitness ==
    /\ pc = "returned"
    /\ Len(A) = 2
    /\ M[1] > M[2]
    /\ \E r \in 1..2 : SubSeq(Deref(M)[r], 1, 2) # Deref(A)[r]

\* ------------------------------------------------------------------------
\* Calls of dc_power_flow on networks with a bus cut off from bus 0
\* ------------------------------------------------------------------------
MaxIslandNodes == 4
MaxIslandLines == 2

\* Networks of up to four buses, lines of reactance 0.1 and 1e-5 between
\* distinct buses, at least one bus without a path to bus 0.
InitIsland ==
    /\ LiteralsExact
    /\ \E N \in 2..MaxIslandNodes :
       \E lns \in Lists(Branches(N, {Dec(1, 1), Dec(1, 5)}), MaxIslandLines) :
           /\ ~Connected(N, lns)
           /\ AtCall("dc_power_flow", N, lns, Balanced(N), <<>>, <<>>)
           /\ chosen = <<>>

SpecIsland == InitIsland /\ [][Next]_vars

\* C1: on a network of N >= 2 buses with in-range endpoints, nonzero
\* reactances and a bus without a path to bus 0, dc_power_flow raises the
\* singular-matrix error and produces no angles and no flows.
SingularityDetected ==
    /\ num_nodes >= 2
    /\ Len(injections) = num_nodes
    /\ ValidNetwork(num_nodes, lines)
    /\ ~Connected(num_nodes, lines)
    => /\ pc \notin {"flow_loop", "returned"}
       /\ angles = <<>> /\ flows = <<>>
       /\ pc = "raised" => err = "Singular matrix"

\* the sum of a list of floats, exactly
RECURSIVE DSum(_)
DSum(list) == IF list = <<>> THEN Zero ELSE DAdd(Head(list), DSum(Tail(list)))

\* the flow leaving bus q (0-based): over the lines that start at q, minus
\* over those that end at q
NetFlow(fl, q, N) ==
    DSum([c \in 1..Len(fl) |->
            DSub(IF BusOf(fl[c][1], N) = q THEN fl[c][3] ELSE Zero,
                 IF BusOf(fl[c][2], N) = q THEN fl[c][3] ELSE Zero)])

Near(u, v) == DLe(DAbs(DSub(u, v)), Tol)

\* C5: whenever dc_power_flow returns for injections that sum to zero, the
\* net flow leaving each bus, bus 0 included, equals its injection within
\* tolerance.
PowerBalance ==
    pc = "returned" /\ DSum(injections) = Zero =>
        \A q \in Buses(num_nodes) :
            Near(NetFlow(flows, q, num_nodes), injections[q + 1])

\* ------------------------------------------------------------------------
\* Calls of build_b_matrix
\* ------------------------------------------------------------------------
NextBuild == BuildInit \/ BuildLine \/ BuildReturn

\* Valid line lists: in-range endpoints (parallel lines, both orientations,
\* self-loops) and the nonzero reactances 0.1, 0.15 and -0.5.
InitBuild ==
    /\ LiteralsExact
    /\ \E N \in 1..MaxNodes :
       \E lns \in Lists(Branches(N, {Dec(1, 1), Dec(15, 2), Dec(-5, 1)})
                          \cup SelfLoops(N, {Dec(1, 1)}),
                        MaxLines) :
           /\ AtCall("build_b_matrix", N, lns, <<>>, <<>>, <<>>)
           /\ chosen = <<>>

SpecBuild == InitBuild /\ [][NextBuild]_vars

\* B is allocated and every line accumulated so far is accumulated in full
Built == pc \in {"build_loop", "returned"}

\* C6: for a valid line list every row of B sums to 0 within tolerance, in
\* the matrix returned and after each line.
RowSumZero ==
    Built => \A Bv \in {Deref(B)} : \A r \in 1..num_nodes : Near(DSum(Bv[r]), Zero)

\* B is returned with two lines of different reactances at one bus
RowSumZeroWitness ==
    /\ pc = "returned"
    /\ Len(lines) = 2
    /\ lines[1][1] = lines[2][1]
    /\ lines[1][3] # lines[2][3]
    /\ \E r \in 1..num_nodes : \E c \in 1..num_nodes : c # r /\ Deref(B)[r][c] # Zero

\* C7: for a valid line list B[i][j] == B[j][i] for all i, j, in the matrix
\* returned and after each line, parallel lines included.
Symmetric ==
    Built => \A Bv \in {Deref(B)} : \A r \in 1..num_nodes : \A c \in 1..num_nodes :
                 Bv[r][c] = Bv[c][r]

\* B is returned with two parallel lines accumulated between buses 0 and 1
SymmetricWitness ==
    /\ pc = "returned"
    /\ Len(lines) = 2
    /\ {lines[1][1], lines[1][2]} = {0, 1}
    /\ {lines[2][1], lines[2][2]} = {0, 1}
    /\ lines[1][3] # lines[2][3]
    /\ Deref(B)[1][2] = FSub(FSub(Zero, FDiv(One, lines[1][3])), FDiv(One, lines[2][3]))

\* ------------------------------------------------------------------------
\* Calls of solve_linear_system
\* ------------------------------------------------------------------------
MaxDim == 2

NextSolve == SolveInit \/ SolveColumn \/ SolveReturn

\* the caller's b = A x: each component summed left to right from 0.0
RECURSIVE DotFrom(_, _, _)
DotFrom(row, v, c) ==
    IF c = 0 THEN Zero ELSE FAdd(DotFrom(row, v, c - 1), FMul(row[c], v[c]))

MatVec(Av, v) == [r \in 1..Len(Av) |-> DotFrom(Av[r], v, Len(v))]

\* the x the caller starts from: (0.1, 0.2, ..., n / 10)
Tenths(n) == [c \in 1..n |-> Dec(c, 1)]

\* the n x n matrices with entries 0, 1 and 3
Matrices(n) == [1..n -> [1..n -> {Dyadic(d, 0) : d \in {0, 1, 3}}]]

\* 1e-13 times the identity
Tiny(n) == [r \in 1..n |-> [c \in 1..n |-> IF r = c THEN Dec(1, 13) ELSE Zero]]

\* Square systems A x = b with b computed from x.
InitSolve ==
    /\ LiteralsExact
    /\ \E n \in 1..MaxDim :
       \E v \in {Tenths(n)} :
       \E Av \in Matrices(n) \cup {Tiny(n)} :
       \E bv \in {MatVec(Av, v)} :
           /\ AtCall("solve_linear_system", 0, <<>>, <<>>, Av, bv)
           /\ chosen = v

SpecSolve == InitSolve /\ [][NextSolve]_vars

\* the determinant, exactly (expansion along the first row)
Minor(Av, c) ==
    [r \in 1..(Len(Av) - 1) |->
        [d \in 1..(Len(Av) - 1) |-> Av[r + 1][IF d < c THEN d ELSE d + 1]]]

RECURSIVE Det(_)
Det(Av) ==
    IF Len(Av) = 0 THEN One
    ELSE DSum([c \in 1..Len(Av) |->
                 LET t == DMul(Av[1][c], Det(Minor(Av, c)))
                 IN  IF c % 2 = 1 THEN t ELSE DNeg(t)])

NonSingular(Av) == Det(Av) # Zero

====
